---- MODULE Spec2Model ----
\* Router.ts of uni-cloud-router: middleware registration (use), controller
\* resolution, the koa-compose chain run by serve, and the normalisation of
\* the outcome (respond / failed).
EXTENDS Integers, Sequences, FiniteSets, TLC

VARIABLES config, middleware, useRet, inv

vars == <<config, middleware, useRet, inv>>

\* ---------------------------------------------------------------------
\* JavaScript values.  A string is a sequence of tokens; a token is either
\* the separator "/" or a piece of text holding no "/" and no
\* regular-expression metacharacter.  Property names are strings.
\* ---------------------------------------------------------------------
Undefined == [t |-> "undefined"]
Null == [t |-> "null"]
Str(s) == [t |-> "string", s |-> s]
Num(n) == [t |-> "number", n |-> n]
Obj(f) == [t |-> "object", f |-> f]
Fn(name, tag, body) == [t |-> "function", name |-> name, _name |-> tag, body |-> body]

\* Boolean(v)
Truthy(v) ==
    CASE v.t = "undefined" -> FALSE
      [] v.t = "null" -> FALSE
      [] v.t = "string" -> v.s # <<>>
      [] v.t = "number" -> v.n # 0
      [] OTHER -> TRUE

\* String(v), for the values that are concatenated into a pattern
StringOf(v) ==
    CASE v.t = "string" -> v.s
      [] v.t = "undefined" -> <<"undefined">>
      [] v.t = "null" -> <<"null">>
      [] OTHER -> <<"[object]">>

\* v[k] for a v that is neither undefined nor null (those throw a TypeError)
Get(v, k) ==
    IF v.t = "object" /\ k \in DOMAIN v.f THEN v.f[k] ELSE Undefined

\* new Error(message): an object with its own message and stack
NewError(msg) ==
    Obj((<<"message">> :> Str(msg)) @@ (<<"stack">> :> Str(<<"Error: ">> \o msg)))

\* the TypeError of reading a property of undefined or null
TypeErrorRead == NewError(<<"Cannot read properties of undefined">>)

\* ---------------------------------------------------------------------
\* String helpers of controller()
\* ---------------------------------------------------------------------
\* action.split('/').filter(Boolean): the maximal runs of tokens between
\* separators, the empty runs dropped
RECURSIVE SplitFrom(_, _, _)
SplitFrom(s, i, cur) ==
    IF i > Len(s)
    THEN IF cur = <<>> THEN <<>> ELSE <<cur>>
    ELSE IF s[i] = "/"
         THEN (IF cur = <<>> THEN <<>> ELSE <<cur>>) \o SplitFrom(s, i + 1, <<>>)
         ELSE SplitFrom(s, i + 1, Append(cur, s[i]))

Split(s) == SplitFrom(s, 1, <<>>)

\* whether s ends with suf
EndsWith(s, suf) ==
    /\ Len(suf) <= Len(s)
    /\ SubSeq(s, Len(s) - Len(suf) + 1, Len(s)) = suf

\* action.replace(new RegExp('/' + methodName + '$'), repl): the pattern is
\* anchored at the end, so it matches the suffix '/' + methodName or nothing
Replace(action, methodName, repl) ==
    LET pat == <<"/">> \o StringOf(methodName)
    IN  IF EndsWith(action, pat)
        THEN SubSeq(action, 1, Len(action) - Len(pat)) \o repl
        ELSE action

\* ---------------------------------------------------------------------
\* Collaborators imported by Router.ts (./utils, ./middleware/http,
\* ./middleware/error, ./BaseContext)
\* ---------------------------------------------------------------------
\* the default failure code
FAILED_CODE == Str(<<"INTERNAL_SERVER_ERROR">>)

\* parseAction(event): the action string decoded from the event, if any
parseAction(event) == event.action

\* error(message): the synthetic handler, tagged 'error', that throws
\* new Error(message) when it is run
error(message) ==
    Fn(<<"error">>, Str(<<"error">>), [kind |-> "error", message |-> message])

\* the built-in transport middleware: decodes the event, then awaits next()
http == Fn(<<"http">>, Undefined, [kind |-> "user", prog |-> <<"next">>])

\* createRouteMatch(options)(ctx): no options or no match criterion matches
\* every invocation; a match criterion matches the invocations of that action
createRouteMatch(options, ctx) ==
    \/ options.t # "object"
    \/ <<"match">> \notin DOMAIN options.f
    \/ options.f[<<"match">>] = parseAction(ctx.event)

\* a controller method of the handler namespace: returns, or throws, the
\* data of the event
Method(name, does) == Fn(<<name>>, Undefined, [kind |-> "method", does |-> does])

\* ctx.controller: the root of the handler namespace
\*   ns.doThing(), ns.sub.doThing(), ns.sub.fail(), ns.sub.error(),
\*   ns.sub.val = 1
ControllerRoot ==
    Obj(<<"ns">> :> Obj(
          (<<"doThing">> :> Method("doThing", "return"))
       @@ (<<"sub">> :> Obj(
              (<<"doThing">> :> Method("doThing", "return"))
           @@ (<<"fail">> :> Method("fail", "throw"))
           @@ (<<"error">> :> Method("error", "return"))
           @@ (<<"val">> :> Num(1))))))

\* createContext(config, event, context, serviceDir, controllerDir): the
\* event and the body slot; ctx.controller is ControllerRoot in every context
createContext(event) == [event |-> event, body |-> Undefined]

\* ---------------------------------------------------------------------
\* Router.controller
\* ---------------------------------------------------------------------
Returns(v) == [throws |-> FALSE, value |-> v]
Throws(e) == [throws |-> TRUE, value |-> e]

\* for (let i = 0; i < len - 1; i++) controller = controller[paths[i]]
RECURSIVE Walk(_, _, _, _)
Walk(c, paths, i, n) ==
    IF i > n THEN Returns(c)
    ELSE IF c.t \in {"undefined", "null"} THEN Throws(TypeErrorRead)
    ELSE Walk(Get(c, paths[i]), paths, i + 1, n)

\* the wrapper around the resolved method, tagged with the method name
HandlerMiddleware(method, methodName) ==
    Fn(<<"middleware">>, methodName, [kind |-> "controller", method |-> method])

NotFoundMessage(action, methodName) ==
    <<"controller/">> \o Replace(action, methodName, <<>>) \o <<" not found">>

\* (variant: the action is not rewritten)
NotFunctionMessage_Plain(action, methodName) ==
    <<"controller/">> \o action \o <<" is not a function">>

NotFunctionMessage(action, methodName) ==
    <<"controller/">> \o Replace(action, methodName, <<".">> \o StringOf(methodName))
        \o <<" is not a function">>

\* the check of the number of path segments that rejects an action
TooShort(len) == len = 1

controller(ctx) ==
    LET action == parseAction(ctx.event)
    IN  IF ~Truthy(action) THEN Returns(error(<<"action is required">>))
        ELSE
        LET paths == Split(action.s)
            len == Len(paths)
        IN  IF TooShort(len) THEN Returns(error(<<"action must contain \"/\"">>))
            ELSE
            LET methodName == IF len >= 1 THEN Str(paths[len]) ELSE Undefined
                walk == Walk(ControllerRoot, paths, 1, len - 1)
            IN  IF walk.throws THEN walk
                ELSE IF ~Truthy(walk.value)
                THEN Returns(error(NotFoundMessage(action.s, methodName)))
                ELSE
                LET method == Get(walk.value, StringOf(methodName))
                IN  IF method.t # "function"
                    THEN Returns(error(NotFunctionMessage(action.s, methodName)))
                    ELSE Returns(HandlerMiddleware(method, methodName))

\* ---------------------------------------------------------------------
\* Router.failed, Router.respond
\* ---------------------------------------------------------------------
\* a || b
OrElse(a, b) == IF Truthy(a) THEN a ELSE b

\* this.config.debug === true
DebugOn(cfg) == cfg.debug = TRUE

failed(err, cfg) ==
    IF err.t \in {"undefined", "null"} THEN Throws(TypeErrorRead)
    ELSE
    LET ret == (<<"code">> :> OrElse(Get(err, <<"code">>), FAILED_CODE))
            @@ (<<"message">> :> OrElse(Get(err, <<"message">>), err))
    IN  IF DebugOn(cfg)
        THEN Returns(Obj(ret @@ (<<"stack">> :> OrElse(Get(err, <<"stack">>), Str(<<>>)))))
        ELSE Returns(Obj(ret))

respond(ctx) == ctx.body

\* ---------------------------------------------------------------------
\* Router.wrapMiddleware
\* ---------------------------------------------------------------------
wrapMiddleware(fn, options) ==
    LET optName == IF options.t = "object" THEN Get(options, <<"name">>) ELSE Undefined
    IN  Fn(<<"mw">>,
           IF Truthy(optName) THEN optName
           ELSE OrElse(fn._name, Str(fn.name)),
           [kind |-> "wrapped", fn |-> fn, options |-> options])


\* ---------------------------------------------------------------------
\* Inputs
\* ---------------------------------------------------------------------
\* the most middleware the configuration and use() register besides http
MaxUse == 2

\* user middleware: the statements of its body, in order.
\*   "next"    await next()
\*   "tryNext" try { await next() } catch (e) {}
\*   "body"    ctx.body = 'mw'
\*   "throw"   throw new Error('mw failed')
User(name, prog) == Fn(<<name>>, Undefined, [kind |-> "user", prog |-> prog])

UserFns ==
    { User("onion", <<"next">>),
      User("stop", <<>>),
      User("after", <<"next", "body">>),
      User("raise", <<"next", "throw">>),
      User("twice", <<"next", "next">>),
      User("guard", <<"body", "tryNext">>) }

\* values passed to use() that are not functions
NotFns == {Undefined, Null, Str(<<"onion">>)}

A_ns_sub_doThing == <<"ns", "/", "sub", "/", "doThing">>

\* the options of a registration
Options == {Undefined, Obj(<<"match">> :> Str(A_ns_sub_doThing))}

\* the calls of use(fn, options): every fn without options, and two of the
\* middleware with a match criterion
Registrations ==
    ((UserFns \cup NotFns) \X {Undefined})
    \cup ({User("onion", <<"next">>), User("after", <<"next", "body">>)} \X (Options \ {Undefined}))

\* the middleware array of the configuration
ConfigMiddleware == {Undefined, [t |-> "array", a |-> <<<<User("onion", <<"next">>), Undefined>>>>]}

\* the action of an event: absent, or a string
Actions ==
    { Undefined,
      Str(<<>>),
      Str(<<"/">>),
      Str(<<"ns">>),
      Str(<<"/", "ns", "/">>),
      Str(<<"ns", "/", "doThing">>),
      Str(A_ns_sub_doThing),
      Str(<<"ns", "/", "sub", "/", "fail">>),
      Str(<<"ns", "/", "sub", "/", "error">>),
      Str(<<"ns", "/", "sub", "/", "val">>),
      Str(<<"ns", "/", "sub", "/", "x">>),
      Str(<<"ns", "/", "sub", "/", "x", "/">>),
      Str(<<"ns", "/", "/", "x">>),
      Str(<<"ns", "/", "x", "/", "doThing">>),
      Str(<<"x", "/", "doThing">>),
      Str(<<"x", "/", "sub", "/", "doThing">>),
      Str(<<"ns", "/", "sub", "/", "val", "/", "x", "/", "doThing">>) }

\* the data of an event, which the methods return or throw
Data ==
    { Undefined,
      Null,
      Str(<<"boom">>),
      Obj((<<"code">> :> Num(42)) @@ (<<"message">> :> Str(<<"boom">>))),
      Obj((<<"code">> :> Num(0)) @@ (<<"message">> :> Str(<<"boom">>))) }

\* the actions whose method returns or throws each of the data
MethodActions ==
    { Str(A_ns_sub_doThing),
      Str(<<"ns", "/", "sub", "/", "fail">>) }

Events == [action : Actions, data : {Undefined}] \cup [action : MethodActions, data : Data]

\* ---------------------------------------------------------------------
\* State
\* ---------------------------------------------------------------------
\* the invocations of serve: each is one call of serve
Inv == {1}

Idle ==
    [mode |-> "idle", promise |-> "none", outcome |-> "none", value |-> Undefined,
     ctx |-> createContext([action |-> Undefined, data |-> Undefined]),
     chain |-> <<>>, index |-> 0, callee |-> 0, stack |-> <<>>,
     err |-> Undefined, log |-> <<>>]

\* Router.initMiddleware: http first, then the configured middleware
initMiddleware(mw) ==
    <<wrapMiddleware(http, Obj(<<"name">> :> Str(<<"http">>)))>>
    \o (IF mw.t = "array"
        THEN [j \in 1..Len(mw.a) |-> wrapMiddleware(mw.a[j][1], mw.a[j][2])]
        ELSE <<>>)

\* new Router(config)
Init ==
    /\ config \in [debug : BOOLEAN, middleware : ConfigMiddleware]
    /\ middleware = initMiddleware(config.middleware)
    /\ useRet = "none"
    /\ inv = [i \in Inv |-> Idle]

\* ---------------------------------------------------------------------
\* Router.use
\* ---------------------------------------------------------------------
\* (variant: the new entry is put first)
use_Prepend(fn, options) ==
    /\ Len(middleware) <= MaxUse
    /\ IF fn.t # "function"
       THEN /\ useRet' = "TypeError"
            /\ UNCHANGED middleware
       ELSE /\ middleware' = <<wrapMiddleware(fn, options)>> \o middleware
            /\ useRet' = "this"
    /\ UNCHANGED <<config, inv>>

\* (variant: the entry is pushed before fn is tested)
use_PushFirst(fn, options) ==
    /\ Len(middleware) <= MaxUse
    /\ middleware' = Append(middleware,
                            Fn(<<"mw">>, Undefined,
                               [kind |-> "wrapped", fn |-> fn, options |-> options]))
    /\ useRet' = IF fn.t # "function" THEN "TypeError" ELSE "this"
    /\ UNCHANGED <<config, inv>>

use(fn, options) ==
    /\ Len(middleware) <= MaxUse
    /\ IF fn.t # "function"
       THEN /\ useRet' = "TypeError"
            /\ UNCHANGED middleware
       ELSE /\ middleware' = Append(middleware, wrapMiddleware(fn, options))
            /\ useRet' = "this"
    /\ UNCHANGED <<config, inv>>

\* ---------------------------------------------------------------------
\* Router.serve
\* ---------------------------------------------------------------------
\* the array handed to compose
ErrorChain(c) == <<http, c>>
\* (variant: the controller is put first)
FullChain_HandlerFirst(c) == <<c>> \o middleware

FullChain(c) == Append(middleware, c)
IsErrorHandler(c) == c._name = Str(<<"error">>)
Chain(c) == IF IsErrorHandler(c) THEN ErrorChain(c) ELSE FullChain(c)

\* the promise of serve after the callback of then or of catch has run
Settled(v, outcome, promise, value) ==
    [v EXCEPT !.mode = "done", !.outcome = outcome,
              !.promise = promise, !.value = value]

\* the invocation as serve leaves it at fn(ctx), for an event whose
\* controller was resolved and composed into chain
Started(event, chain) ==
    [Idle EXCEPT !.mode = "call", !.promise = "pending",
                 !.ctx = createContext(event), !.chain = chain, !.callee = 1]

\* serve up to fn(ctx): the context, the controller, the composed chain
serve(i, event) ==
    /\ inv[i].mode = "idle"
    /\ LET ctx == createContext(event)
           c == controller(ctx)
       IN  IF c.throws
           THEN inv' = [inv EXCEPT ![i] =
                    [Idle EXCEPT !.mode = "done", !.promise = "rejected",
                                 !.value = c.value, !.ctx = ctx]]
           ELSE inv' = [inv EXCEPT ![i] = Started(event, Chain(c.value))]
    /\ UNCHANGED <<config, middleware, useRet>>


\* ---------------------------------------------------------------------
\* The composed chain: koa-compose's dispatch, the wrapper of
\* wrapMiddleware, the wrapper of controller(), the bodies of the middleware
\* ---------------------------------------------------------------------
\* the history of an invocation, kept for the properties: <<"enter", k>> the
\* body of chain[k] starts, <<"skip", k>> its wrapper defers to next(),
\* <<"resume", k>> it goes on after an awaited next(), <<"body", k>> it
\* assigns ctx.body, <<"exit", k>> it returns, <<"raise", k>> it throws
Logged(v, ev, k) == Append(v.log, <<ev, k>>)

\* the statements of the function at chain[k] once its wrapper has let it run
ProgOf(fn) ==
    IF fn.body.kind = "wrapped" THEN fn.body.fn.body.prog ELSE fn.body.prog

\* (variant: the wrapper runs fn whatever the options)
Wrapped_NoGate(v, k, fn) ==
    [v EXCEPT !.mode = "run", !.stack = Append(v.stack, [k |-> k, pc |-> 1]),
              !.log = Logged(v, "enter", k)]

\* mw(ctx, next) of wrapMiddleware: defer to next() when the options do not
\* match, else run fn(ctx, next)
Wrapped(v, k, fn) ==
    IF ~createRouteMatch(fn.body.options, v.ctx)
    THEN [v EXCEPT !.mode = "call", !.callee = k + 1, !.log = Logged(v, "skip", k)]
    ELSE [v EXCEPT !.mode = "run", !.stack = Append(v.stack, [k |-> k, pc |-> 1]),
                   !.log = Logged(v, "enter", k)]

\* (variant: only a truthy result becomes ctx.body)
Handler_Truthy(v, k, fn) ==
    LET data == v.ctx.event.data
    IN  IF fn.body.method.body.does = "throw"
        THEN [v EXCEPT !.mode = "throw", !.err = data,
                       !.log = Logged(v, "enter", k) \o <<<<"raise", k>>>>]
        ELSE [v EXCEPT !.mode = "return",
                       !.ctx.body = IF Truthy(data) THEN data ELSE v.ctx.body,
                       !.log = Logged(v, "enter", k) \o <<<<"exit", k>>>>]

\* (variant: the result becomes ctx.body whatever it is)
Handler_Always(v, k, fn) ==
    LET data == v.ctx.event.data
    IN  IF fn.body.method.body.does = "throw"
        THEN [v EXCEPT !.mode = "throw", !.err = data,
                       !.log = Logged(v, "enter", k) \o <<<<"raise", k>>>>]
        ELSE [v EXCEPT !.mode = "return", !.ctx.body = data,
                       !.log = Logged(v, "enter", k) \o <<<<"exit", k>>>>]

\* the wrapper of controller(): await method.call(controller, ctx), and the
\* result, unless undefined, becomes ctx.body
Handler(v, k, fn) ==
    LET data == v.ctx.event.data
    IN  IF fn.body.method.body.does = "throw"
        THEN [v EXCEPT !.mode = "throw", !.err = data,
                       !.log = Logged(v, "enter", k) \o <<<<"raise", k>>>>]
        ELSE [v EXCEPT !.mode = "return",
                       !.ctx.body = IF data.t # "undefined" THEN data ELSE v.ctx.body,
                       !.log = Logged(v, "enter", k) \o <<<<"exit", k>>>>]

\* the handler of error(message)
ErrorHandler(v, k, fn) ==
    [v EXCEPT !.mode = "throw", !.err = NewError(fn.body.message),
              !.log = Logged(v, "enter", k) \o <<<<"raise", k>>>>]

\* fn(context, dispatch.bind(null, i + 1))
Invoke(v, k) ==
    LET fn == v.chain[k]
    IN  CASE fn.body.kind = "wrapped" -> Wrapped(v, k, fn)
          [] fn.body.kind = "controller" -> Handler(v, k, fn)
          [] fn.body.kind = "error" -> ErrorHandler(v, k, fn)
          [] OTHER -> [v EXCEPT !.mode = "run",
                                !.stack = Append(v.stack, [k |-> k, pc |-> 1]),
                                !.log = Logged(v, "enter", k)]

\* the position a call of next() from chain[k] dispatches
NextOf(k) == k + 1

\* (variant: dispatch does not test i <= index)
Dispatched_NoIndexTest(v) ==
    LET k == v.callee
    IN  IF k > Len(v.chain)
        THEN [v EXCEPT !.mode = "return", !.index = k]
        ELSE Invoke([v EXCEPT !.index = k], k)

\* koa-compose dispatch(i), on the invocation v whose callee is i
Dispatched(v) ==
    LET k == v.callee
    IN  IF k <= v.index
        THEN [v EXCEPT !.mode = "throw",
                       !.err = NewError(<<"next() called multiple times">>)]
        ELSE IF k > Len(v.chain)
        THEN [v EXCEPT !.mode = "return", !.index = k]
        ELSE Invoke([v EXCEPT !.index = k], k)

dispatch(i) ==
    /\ inv[i].mode = "call"
    /\ inv' = [inv EXCEPT ![i] = Dispatched(inv[i])]
    /\ UNCHANGED <<config, middleware, useRet>>

Top(v) == v.stack[Len(v.stack)]
Pop(v) == SubSeq(v.stack, 1, Len(v.stack) - 1)

\* (variant: a body that returns without a call of next() falls through to
\* the next entry)
Stepped_FallThrough(v) ==
    LET f == Top(v)
        prog == ProgOf(v.chain[f.k])
    IN  IF prog = <<>> /\ f.pc = 1
        THEN [v EXCEPT !.mode = "call", !.callee = NextOf(f.k)]
        ELSE IF f.pc > Len(prog)
        THEN [v EXCEPT !.mode = "return", !.stack = Pop(v),
                       !.log = Logged(v, "exit", f.k)]
        ELSE CASE prog[f.pc] \in {"next", "tryNext"} ->
                    [v EXCEPT !.mode = "call", !.callee = NextOf(f.k)]
               [] prog[f.pc] = "body" ->
                    [v EXCEPT !.ctx.body = Str(<<"mw">>),
                              !.stack[Len(v.stack)].pc = f.pc + 1,
                              !.log = Logged(v, "body", f.k)]
               [] OTHER ->
                    [v EXCEPT !.mode = "throw", !.stack = Pop(v),
                              !.err = NewError(<<"mw failed">>),
                              !.log = Logged(v, "raise", f.k)]

\* one statement of the body of the middleware on top of the stack of v
Stepped(v) ==
    LET f == Top(v)
        prog == ProgOf(v.chain[f.k])
    IN  IF f.pc > Len(prog)
        THEN [v EXCEPT !.mode = "return", !.stack = Pop(v),
                       !.log = Logged(v, "exit", f.k)]
        ELSE CASE prog[f.pc] \in {"next", "tryNext"} ->
                    [v EXCEPT !.mode = "call", !.callee = NextOf(f.k)]
               [] prog[f.pc] = "body" ->
                    [v EXCEPT !.ctx.body = Str(<<"mw">>),
                              !.stack[Len(v.stack)].pc = f.pc + 1,
                              !.log = Logged(v, "body", f.k)]
               [] OTHER ->
                    [v EXCEPT !.mode = "throw", !.stack = Pop(v),
                              !.err = NewError(<<"mw failed">>),
                              !.log = Logged(v, "raise", f.k)]

\* (variant: ctx.body is one slot of the router, shared by the invocations)
step_SharedBody(i) ==
    /\ inv[i].mode = "run"
    /\ inv' = [j \in DOMAIN inv |->
                IF j = i THEN Stepped(inv[i])
                ELSE [inv[j] EXCEPT !.ctx.body = Stepped(inv[i]).ctx.body]]
    /\ UNCHANGED <<config, middleware, useRet>>

step(i) ==
    /\ inv[i].mode = "run"
    /\ inv' = [inv EXCEPT ![i] = Stepped(inv[i])]
    /\ UNCHANGED <<config, middleware, useRet>>

\* the promise a middleware awaits is fulfilled: its body goes on
Resumed(v) ==
    LET f == Top(v)
    IN  [v EXCEPT !.mode = "run", !.stack[Len(v.stack)].pc = f.pc + 1,
                  !.log = Logged(v, "resume", f.k)]

resume(i) ==
    /\ inv[i].mode = "return"
    /\ inv[i].stack # <<>>
    /\ inv' = [inv EXCEPT ![i] = Resumed(inv[i])]
    /\ UNCHANGED <<config, middleware, useRet>>

\* the promise a middleware awaits is rejected: caught by its try, if it
\* has one, else its own promise is rejected
Unwound(v) ==
    LET f == Top(v)
        prog == ProgOf(v.chain[f.k])
    IN  IF prog[f.pc] = "tryNext"
        THEN [v EXCEPT !.mode = "run", !.err = Undefined,
                       !.stack[Len(v.stack)].pc = f.pc + 1,
                       !.log = Logged(v, "resume", f.k)]
        ELSE [v EXCEPT !.stack = Pop(v), !.log = Logged(v, "raise", f.k)]

unwind(i) ==
    /\ inv[i].mode = "throw"
    /\ inv[i].stack # <<>>
    /\ inv' = [inv EXCEPT ![i] = Unwound(inv[i])]
    /\ UNCHANGED <<config, middleware, useRet>>

\* .then(() => { resolve(this.respond(ctx)) })
Responded(v) == Settled(v, "RESPOND", "resolved", respond(v.ctx))

then(i) ==
    /\ inv[i].mode = "return"
    /\ inv[i].stack = <<>>
    /\ inv' = [inv EXCEPT ![i] = Responded(inv[i])]
    /\ UNCHANGED <<config, middleware, useRet>>

\* .catch((err) => { resolve(this.failed(err)) }): when failed throws,
\* resolve is never called
Caught(v, cfg) ==
    LET ret == failed(v.err, cfg)
    IN  IF ret.throws
        THEN Settled(v, "FAILED", "pending", Undefined)
        ELSE Settled(v, "FAILED", "resolved", ret.value)

catch(i) ==
    /\ inv[i].mode = "throw"
    /\ inv[i].stack = <<>>
    /\ inv' = [inv EXCEPT ![i] = Caught(inv[i], config)]
    /\ UNCHANGED <<config, middleware, useRet>>

Next ==
    \/ \E r \in Registrations : use(r[1], r[2])
    \/ \E i \in DOMAIN inv, event \in Events : serve(i, event)
    \/ \E i \in DOMAIN inv : dispatch(i)
    \/ \E i \in DOMAIN inv : step(i)
    \/ \E i \in DOMAIN inv : resume(i)
    \/ \E i \in DOMAIN inv : unwind(i)
    \/ \E i \in DOMAIN inv : then(i)
    \/ \E i \in DOMAIN inv : catch(i)

Spec == Init /\ [][Next]_vars


\* ---------------------------------------------------------------------
\* Two invocations of serve in flight on one router
\* ---------------------------------------------------------------------
InvConc == {1, 2}

\* the events of the two invocations: a method that returns its data, a
\* method that throws it, an action without '/'
EventsConc ==
    { [action |-> Str(A_ns_sub_doThing), data |-> Str(<<"boom">>)],
      [action |-> Str(A_ns_sub_doThing), data |-> Undefined],
      [action |-> Str(<<"ns", "/", "sub", "/", "fail">>), data |-> Str(<<"boom">>)],
      [action |-> Str(<<"ns">>), data |-> Undefined] }

\* the calls of use() made while the two are served
RegistrationsConc ==
    { <<User("after", <<"next", "body">>), Undefined>>,
      <<User("guard", <<"body", "tryNext">>), Undefined>> }

\* new Router({debug: true})
InitConc ==
    /\ config = [debug |-> TRUE, middleware |-> Undefined]
    /\ middleware = initMiddleware(config.middleware)
    /\ useRet = "none"
    /\ inv = [i \in InvConc |-> Idle]

NextConc ==
    \/ \E r \in RegistrationsConc : use(r[1], r[2])
    \/ \E i \in DOMAIN inv, event \in EventsConc : serve(i, event)
    \/ \E i \in DOMAIN inv : dispatch(i)
    \/ \E i \in DOMAIN inv : step(i)
    \/ \E i \in DOMAIN inv : resume(i)
    \/ \E i \in DOMAIN inv : unwind(i)
    \/ \E i \in DOMAIN inv : then(i)
    \/ \E i \in DOMAIN inv : catch(i)

SpecConc == InitConc /\ [][NextConc]_vars


\* =====================================================================
\* Properties
\* =====================================================================
Done(v) == v.mode = "done"

\* the path segments of the action of an invocation
SegmentsOf(v) ==
    LET action == parseAction(v.ctx.event)
    IN  IF action.t = "string" THEN Split(action.s) ELSE <<>>

\* the strings of the action of an invocation ('' when it is absent)
ActionText(v) ==
    LET action == parseAction(v.ctx.event)
    IN  IF action.t = "string" THEN action.s ELSE <<>>

\* the attribute of a settled value, when it is an object
Attr(value, name) == IF value.t = "object" THEN Get(value, name) ELSE Undefined

\* C1: the promise returned by serve never rejects, whatever the event, the
\* handler namespace and the behaviour of the middleware and the handler,
\* an exception raised while the controller is resolved included.
C1_NeverRejects == \A i \in DOMAIN inv : inv[i].promise # "rejected"

\* C2: once every middleware and handler step of an invocation has
\* terminated, the promise returned by serve is settled with a value,
\* whatever value a step threw: the failure normalizer never prevents it.
C2_Settles == \A i \in DOMAIN inv : Done(inv[i]) => inv[i].promise # "pending"


\* ---- the chain of an invocation, read for the properties ----
IsMiddleware(fn) == fn.body.kind \in {"wrapped", "user"}

\* whether chain[k] of invocation v runs its body when it is reached
Matches(v, k) ==
    v.chain[k].body.kind = "wrapped" => createRouteMatch(v.chain[k].body.options, v.ctx)

\* how often the body of a middleware calls next()
RECURSIVE NextCalls(_)
NextCalls(prog) ==
    IF prog = <<>> THEN 0
    ELSE (IF Head(prog) \in {"next", "tryNext"} THEN 1 ELSE 0) + NextCalls(Tail(prog))

\* every matching middleware of the chain calls next() exactly once
CallOnce(v) ==
    \A k \in 1..Len(v.chain) :
        (IsMiddleware(v.chain[k]) /\ Matches(v, k)) => NextCalls(ProgOf(v.chain[k])) = 1

\* the positions of the log holding event ev of chain[k]
At(v, ev, k) == {p \in 1..Len(v.log) : v.log[p] = <<ev, k>>}

\* chain[k] has finished, by returning or by throwing, before position q
FinishedBefore(v, k, q) ==
    \E p \in 1..(q - 1) : v.log[p] \in {<<"exit", k>>, <<"raise", k>>}

\* C3: onion ordering. When every matching middleware m1..mn of the chain
\* calls continue once, the pre-continue parts start in registration order,
\* the handler starts after the pre-continue part of every matching
\* middleware, the post-continue parts start in reverse order, and the
\* post-continue part of mi starts only after the handler and every matching
\* mj with j > i have finished.
C3_OnionOrder ==
    \A i \in DOMAIN inv :
        LET v == inv[i]
            n == Len(v.chain)
        IN  CallOnce(v) =>
            /\ \A p, q \in 1..Len(v.log) :
                 (p < q /\ v.log[p][1] = "enter" /\ v.log[q][1] = "enter")
                     => v.log[p][2] < v.log[q][2]
            /\ \A q \in 1..Len(v.log) :
                 (v.log[q][1] = "enter" /\ ~IsMiddleware(v.chain[v.log[q][2]]))
                     => /\ v.log[q][2] = n
                        /\ \A k \in 1..(n - 1) :
                             Matches(v, k) => \E p \in At(v, "enter", k) : p < q
            /\ \A p, q \in 1..Len(v.log) :
                 (p < q /\ v.log[p][1] = "resume" /\ v.log[q][1] = "resume")
                     => v.log[p][2] > v.log[q][2]
            /\ \A q \in 1..Len(v.log) :
                 v.log[q][1] = "resume"
                     => \A j \in (v.log[q][2] + 1)..n :
                          Matches(v, j) => FinishedBefore(v, j, q)

\* a clean run through http, two matching user middleware and the handler
C3_Witness ==
    \E i \in DOMAIN inv :
        LET v == inv[i]
        IN  /\ CallOnce(v)
            /\ v.outcome = "RESPOND"
            /\ Len(v.chain) = 4
            /\ \A k \in 1..4 : Matches(v, k)
            /\ [p \in 1..Len(v.log) |-> v.log[p]] =
                 << <<"enter", 1>>, <<"enter", 2>>, <<"enter", 3>>, <<"enter", 4>>,
                    <<"exit", 4>>, <<"resume", 3>>, <<"exit", 3>>, <<"resume", 2>>,
                    <<"exit", 2>>, <<"resume", 1>>, <<"exit", 1>> >>

\* C4: match gating. A middleware whose match predicate is false for the
\* invocation never runs its body, and once its wrapper was reached the chain
\* has gone on to the next entry; a middleware whose predicate is true is
\* never skipped, runs its body once reached, and its continue dispatches the
\* next entry of the chain (the entries passed over are the skipped ones).
C4_MatchGating ==
    \A i \in DOMAIN inv :
        LET v == inv[i]
        IN  /\ \A k \in 1..Len(v.chain) :
                 v.chain[k].body.kind = "wrapped" =>
                    IF Matches(v, k)
                    THEN /\ At(v, "skip", k) = {}
                         /\ v.index >= k => At(v, "enter", k) # {}
                    ELSE /\ At(v, "enter", k) = {}
                         /\ v.index >= k =>
                              /\ At(v, "skip", k) # {}
                              /\ \/ v.index >= k + 1
                                 \/ v.mode = "call" /\ v.callee = k + 1
            /\ (v.mode = "call" /\ v.stack # <<>>) =>
                 /\ v.callee > Top(v).k
                 /\ \A j \in (Top(v).k + 1)..(v.callee - 1) :
                      ~Matches(v, j) /\ At(v, "skip", j) # {}

\* a middleware that does not match was skipped and the handler still ran
C4_Witness ==
    \E i \in DOMAIN inv :
        LET v == inv[i]
        IN  /\ v.outcome = "RESPOND"
            /\ Len(v.chain) = 4
            /\ ~Matches(v, 2) /\ Matches(v, 3)
            /\ At(v, "skip", 2) # {} /\ At(v, "enter", 3) # {} /\ At(v, "exit", 4) # {}


\* ---- the outcome of an invocation, read for the properties ----
\* serve resolved to a failure object with the default code and this message
FailsWith(v, msg) ==
    /\ v.promise = "resolved"
    /\ v.outcome = "FAILED"
    /\ Attr(v.value, <<"code">>) = FAILED_CODE
    /\ Attr(v.value, <<"message">>) = Str(msg)

\* a chain entry that was registered by the configuration or by use()
IsUserMiddleware(fn) == fn.body.kind = "wrapped" /\ fn.body.fn # http

\* C5: an action with zero path segments (absent, empty, only '/') resolves
\* to {code: default, message: 'action is required'}, an action with one
\* segment to {code: default, message: 'action must contain "/"'}, and in
\* both cases no user-registered middleware body executes.
C5_Malformed ==
    \A i \in DOMAIN inv :
        LET v == inv[i]
            n == Len(SegmentsOf(v))
        IN  Done(v) =>
            /\ n = 0 => FailsWith(v, <<"action is required">>)
            /\ n = 1 => FailsWith(v, <<"action must contain \"/\"">>)
            /\ n <= 1 => \A p \in 1..Len(v.log) :
                            v.log[p][1] = "enter" => ~IsUserMiddleware(v.chain[v.log[p][2]])

\* the node n namespace segments below the root, undefined as soon as one
\* lookup on the way is missing
RECURSIVE Lookup(_, _)
Lookup(paths, n) ==
    IF n = 0 THEN ControllerRoot
    ELSE LET parent == Lookup(paths, n - 1)
         IN  IF parent.t \in {"undefined", "null"} THEN Undefined
             ELSE Get(parent, paths[n])

\* the action with its trailing '/<methodName>' removed
NamespacePath(v) ==
    LET a == ActionText(v)
        paths == SegmentsOf(v)
        tail == <<"/">> \o paths[Len(paths)]
    IN  IF EndsWith(a, tail) THEN SubSeq(a, 1, Len(a) - Len(tail)) ELSE a

\* C6: for an action of at least two segments, when the lookup of any
\* namespace segment (the first, an intermediate or the last one) yields a
\* missing node, serve resolves to a failure whose message is exactly
\* 'controller/<namespace path> not found'.
C6_NotFound ==
    \A i \in DOMAIN inv :
        LET v == inv[i]
            paths == SegmentsOf(v)
        IN  (/\ Done(v)
             /\ Len(paths) >= 2
             /\ \E n \in 1..(Len(paths) - 1) : Lookup(paths, n) = Undefined)
            => FailsWith(v, <<"controller/">> \o NamespacePath(v) \o <<" not found">>)

\* the strings of segs joined with sep
RECURSIVE Join(_, _)
Join(segs, sep) ==
    IF segs = <<>> THEN <<>>
    ELSE IF Len(segs) = 1 THEN segs[1]
    ELSE segs[1] \o <<sep>> \o Join(Tail(segs), sep)

\* the namespace of the action resolves to a node, and the method name is
\* not a function of that node
MethodNotCallable(v) ==
    LET paths == SegmentsOf(v)
        len == Len(paths)
    IN  /\ len >= 2
        /\ Truthy(Lookup(paths, len - 1))
        /\ Get(Lookup(paths, len - 1), paths[len]).t # "function"

HandlerAt(v) == Len(v.chain)

\* the handler of the invocation is a resolved method, which ran and returned
\* a value other than undefined
HandlerReturned(v) ==
    /\ v.chain # <<>>
    /\ v.chain[HandlerAt(v)].body.kind = "controller"
    /\ At(v, "exit", HandlerAt(v)) # {}
    /\ v.ctx.event.data.t # "undefined"

\* C8 as stated: when the action resolves to a handler that returns a value
\* V other than undefined, serve resolves to exactly V.
C8_HandlerValue ==
    \A i \in DOMAIN inv :
        LET v == inv[i]
        IN  (Done(v) /\ HandlerReturned(v))
            => (v.promise = "resolved" /\ v.value = v.ctx.event.data)

\* C8 as amended: ... serve resolves to exactly V, provided the chain then
\* completes without a failure and no middleware assigns the body after the
\* handler returned; and right after the handler returned the body is V.
C8_HandlerValueKept ==
    \A i \in DOMAIN inv :
        LET v == inv[i]
        IN  HandlerReturned(v) =>
            /\ \A p \in At(v, "exit", HandlerAt(v)) :
                 (\A q \in (p + 1)..Len(v.log) : v.log[q][1] # "body")
                     => v.ctx.body = v.ctx.event.data
            /\ (/\ Done(v)
                /\ v.outcome = "RESPOND"
                /\ \A p \in At(v, "exit", HandlerAt(v)) :
                     \A q \in (p + 1)..Len(v.log) : v.log[q][1] # "body")
               => (v.promise = "resolved" /\ v.value = v.ctx.event.data)

\* the handler returned null behind a middleware, and serve resolved to null
C8_Witness ==
    \E i \in DOMAIN inv :
        /\ Done(inv[i]) /\ HandlerReturned(inv[i])
        /\ inv[i].outcome = "RESPOND"
        /\ Len(inv[i].chain) >= 3
        /\ inv[i].ctx.event.data = Null
        /\ inv[i].value = Null

\* E has the attribute
HasAttr(E, name) == E.t = "object" /\ name \in DOMAIN E.f

\* C9: when a step fails with value E, serve resolves to an object whose
\* code is E.code whenever E has a code attribute (whatever its value) and
\* the default failure code otherwise, whose message is E.message whenever E
\* has a message attribute and E itself otherwise, and which has a stack key
\* if and only if the debug flag is enabled (stated here for an E other than
\* null and undefined, whose attributes can be read).
C9_Normalized ==
    \A i \in DOMAIN inv :
        LET v == inv[i]
            E == v.err
        IN  (Done(v) /\ v.outcome = "FAILED" /\ E.t \notin {"undefined", "null"}) =>
            /\ v.promise = "resolved"
            /\ v.value.t = "object"
            /\ Attr(v.value, <<"code">>) =
                 (IF HasAttr(E, <<"code">>) THEN E.f[<<"code">>] ELSE FAILED_CODE)
            /\ Attr(v.value, <<"message">>) =
                 (IF HasAttr(E, <<"message">>) THEN E.f[<<"message">>] ELSE E)
            /\ HasAttr(v.value, <<"stack">>) <=> (config.debug = TRUE)

\* the functions the entries of a chain wrap
Inner(chain) ==
    [k \in 1..Len(chain) |->
        IF chain[k].body.kind = "wrapped" THEN chain[k].body.fn ELSE chain[k]]

\* C10: chain selection. When the action resolves to a callable method,
\* whatever its name, serve composes the transport entry and every registered
\* entry, in registration order, with the handler innermost; it composes the
\* transport entry and the error handler alone exactly when the resolution
\* failed.
C10_ChainSelection ==
    [][\A i \in DOMAIN inv :
         (inv[i].mode = "idle" /\ inv'[i].mode = "call") =>
            LET chain == inv'[i].chain
                c == chain[Len(chain)]
            IN  IF c.body.kind = "error"
                THEN chain = <<http, c>>
                ELSE Inner(SubSeq(chain, 1, Len(chain) - 1)) = Inner(middleware)]_vars

\* ---- the steps of an invocation, read for the properties ----
\* the transport middleware, as serve composes it or as use() wrapped it
IsTransport(fn) == Inner(<<fn>>)[1] = http

\* C11: in every finished invocation of serve (successful resolution, usage
\* error, failure during resolution or during the chain) the transport
\* middleware executes exactly once, and before any user middleware, the
\* handler and the error handler.
C11_TransportOnce ==
    \A i \in DOMAIN inv :
        LET v == inv[i]
        IN  Done(v) =>
            /\ v.chain # <<>>
            /\ IsTransport(v.chain[1])
            /\ Cardinality(At(v, "enter", 1)) = 1
            /\ v.log[1] = <<"enter", 1>>

\* C11 for the invocations whose resolution returned: the transport
\* middleware is entered as soon as the chain runs, and never again
TransportOnceStarted ==
    \A i \in DOMAIN inv :
        LET v == inv[i]
        IN  (v.chain # <<>> /\ v.log # <<>>) =>
            /\ IsTransport(v.chain[1])
            /\ Cardinality(At(v, "enter", 1)) = 1
            /\ v.log[1] = <<"enter", 1>>

\* ---- the middleware sequence, read for the properties ----
\* the first entry of the sequence is the transport middleware
FirstIsTransport == middleware # <<>> /\ IsTransport(middleware[1])

\* a step that changes the sequence adds one entry at its end, keeps every
\* entry there was in its place, and is a use() that returned the router
UseAppends ==
    middleware' # middleware =>
        /\ Len(middleware') = Len(middleware) + 1
        /\ SubSeq(middleware', 1, Len(middleware)) = middleware
        /\ middleware'[Len(middleware')].body.kind = "wrapped"
        /\ middleware'[Len(middleware')].body.fn \in UserFns
        /\ useRet' = "this"

\* a use() that returned the router added an entry
UseReturnsThis == (useRet' = "this" /\ useRet # "this") => middleware' # middleware

\* C12: after construction and after any sequence of use calls the first
\* entry of the middleware sequence is the transport middleware; every
\* successful use adds exactly one entry at the end and leaves the entries
\* registered before as and where they were; use returns the router itself.
C12_Registration == []FirstIsTransport /\ [][UseAppends /\ UseReturnsThis]_vars

C12_Witness ==
    /\ Len(middleware) = 3
    /\ useRet = "this"
    /\ IsTransport(middleware[1])
    /\ middleware[2].body.fn = User("onion", <<"next">>)
    /\ middleware[3].body.fn = User("after", <<"next", "body">>)

\* every entry of the sequence wraps a function
EntriesAreFunctions ==
    \A k \in 1..Len(middleware) :
        /\ middleware[k].body.kind = "wrapped"
        /\ middleware[k].body.fn.t = "function"

\* a use() that threw its TypeError left the sequence as it was
RejectedUseKeeps == useRet' = "TypeError" => middleware' = middleware

\* C13: use with a value that is not a function fails with a TypeError and
\* leaves the middleware sequence exactly as it was before the call: no entry
\* is added for it.
C13_UseTypeError == []EntriesAreFunctions /\ [][RejectedUseKeeps]_vars

C13_Witness ==
    /\ useRet = "TypeError"
    /\ Len(middleware) = 2
    /\ middleware[2].body.fn = User("onion", <<"next">>)

\* ---- an invocation run on its own, read for the properties ----
\* the one step the invocation v can take
Advance(v, cfg) ==
    CASE v.mode = "call" -> Dispatched(v)
      [] v.mode = "run" -> Stepped(v)
      [] v.mode = "return" /\ v.stack # <<>> -> Resumed(v)
      [] v.mode = "throw" /\ v.stack # <<>> -> Unwound(v)
      [] v.mode = "return" /\ v.stack = <<>> -> Responded(v)
      [] v.mode = "throw" /\ v.stack = <<>> -> Caught(v, cfg)
      [] OTHER -> v

\* the invocation v run to its end with nothing else going on
RECURSIVE RunAlone(_, _)
RunAlone(v, cfg) == IF v.mode \in {"idle", "done"} THEN v ELSE RunAlone(Advance(v, cfg), cfg)

\* every invocation that was composed is, at each of its suspension points,
\* where the same event served alone on the same chain gets, and ends as it
\* ends
AsAlone ==
    \A i \in DOMAIN inv :
        LET v == inv[i]
        IN  v.chain # <<>> =>
                RunAlone(v, config) = RunAlone(Started(v.ctx.event, v.chain), config)

\* a step of one invocation changes neither the other invocation nor the
\* middleware sequence nor the configuration of the router
OwnContext ==
    \A i \in DOMAIN inv :
        inv'[i] # inv[i] =>
            /\ middleware' = middleware
            /\ config' = config
            /\ \A j \in DOMAIN inv \ {i} : inv'[j] = inv[j]

\* C14: two invocations of serve interleaved at arbitrary suspension points
\* each have their own context and body slot, serve never changes the
\* middleware sequence or the configuration of the router, and each
\* invocation resolves to the value it resolves to when it runs alone.
C14_Isolation == []AsAlone /\ [][OwnContext]_vars

\* both invocations are suspended inside their chains, which differ: the
\* first has assigned its body and awaits its handler, the second is
\* propagating the failure of its handler
C14_Witness ==
    /\ inv[1].mode = "call" /\ inv[1].ctx.body = Str(<<"mw">>)
    /\ Len(inv[1].stack) = 3 /\ Len(inv[1].chain) = 4
    /\ inv[2].mode = "throw"
    /\ Len(inv[2].stack) = 2 /\ Len(inv[2].chain) = 3
    /\ inv[2].ctx.body = Undefined

\* ---- the errors of an invocation, read for the properties ----
\* some step of the chain of v threw
Raised(v) == \E p \in 1..Len(v.log) : v.log[p][1] = "raise"

\* a middleware of v caught the error of the entry it awaited: the entry
\* threw and the middleware went on
SomeCaught(v) ==
    \E p \in 1..(Len(v.log) - 1) : v.log[p][1] = "raise" /\ v.log[p + 1][1] = "resume"

\* once a step has thrown, no entry of the chain starts or is passed over
NoEntryAfterRaise ==
    \A i \in DOMAIN inv :
        LET v == inv[i]
        IN  \A p, q \in 1..Len(v.log) :
                (p < q /\ v.log[p][1] = "raise") => v.log[q][1] \notin {"enter", "skip"}

\* the callback of catch runs exactly when the outermost entry threw, the
\* callback of then exactly when it returned
BoundaryOutcome ==
    \A i \in DOMAIN inv :
        LET v == inv[i]
        IN  (Done(v) /\ v.chain # <<>>) =>
            /\ v.outcome \in {"RESPOND", "FAILED"}
            /\ v.outcome = "FAILED" <=> v.log[Len(v.log)] = <<"raise", 1>>
            /\ v.outcome = "RESPOND" <=> v.log[Len(v.log)] = <<"exit", 1>>
            /\ (Raised(v) /\ ~SomeCaught(v)) => v.outcome = "FAILED"

\* a finished invocation takes no further step: no second outcome, no retry
OutcomeOnce == [][\A i \in DOMAIN inv : Done(inv[i]) => inv'[i] = inv[i]]_vars

\* C15: when a step of the chain raises an error (that no middleware
\* catches), the invocation ends in exactly one terminal outcome, and that
\* outcome is FAILED: serve resolves to a failure object.
C15_RaisedFails ==
    \A i \in DOMAIN inv :
        LET v == inv[i]
        IN  (Done(v) /\ Raised(v) /\ ~SomeCaught(v)) =>
            /\ v.outcome = "FAILED"
            /\ v.promise = "resolved"
            /\ v.value.t = "object"

\* C15 without its restriction to uncaught errors: an invocation in which
\* some step raised an error ends in FAILED
RaisedFailsAlways ==
    \A i \in DOMAIN inv : (Done(inv[i]) /\ Raised(inv[i])) => inv[i].outcome = "FAILED"

\* ---- the body of an invocation, read for the properties ----
\* the value the first n steps of v last assigned to ctx.body: a middleware
\* assigns 'mw', the handler its result unless that is undefined
RECURSIVE LastAssigned(_, _)
LastAssigned(v, n) ==
    IF n = 0 THEN Undefined
    ELSE LET ev == v.log[n]
             data == v.ctx.event.data
         IN  IF ev[1] = "body" THEN Str(<<"mw">>)
             ELSE IF /\ ev[1] = "exit"
                     /\ v.chain[ev[2]].body.kind = "controller"
                     /\ data.t # "undefined"
             THEN data
             ELSE LastAssigned(v, n - 1)

\* C16: on clean completion serve resolves to exactly the value last
\* assigned to ctx.body by any step: the handler assigns its return value
\* only when it is not undefined (null is assigned), a handler returning
\* undefined leaves the body as earlier middleware set it, a middleware that
\* assigns after next() overrides the handler's value, and the result is
\* undefined when nothing assigned the body.
C16_LastAssigned ==
    \A i \in DOMAIN inv :
        LET v == inv[i]
        IN  /\ v.chain # <<>> => v.ctx.body = LastAssigned(v, Len(v.log))
            /\ (Done(v) /\ v.outcome = "RESPOND") =>
                  /\ v.promise = "resolved"
                  /\ v.value = LastAssigned(v, Len(v.log))

\* a middleware assigned the body, the handler then returned undefined, and
\* serve resolved to what the middleware assigned
C16_Witness ==
    /\ Done(inv[1]) /\ inv[1].outcome = "RESPOND"
    /\ inv[1].ctx.event.data = Undefined
    /\ inv[1].log = << <<"enter", 1>>, <<"enter", 2>>, <<"body", 2>>,
                       <<"enter", 3>>, <<"exit", 3>>, <<"resume", 2>>, <<"exit", 2>>,
                       <<"resume", 1>>, <<"exit", 1>> >>
    /\ inv[1].value = Str(<<"mw">>)

\* the handler returned null after a middleware had assigned the body, and
\* serve resolved to null
NullAssigned ==
    /\ Done(inv[1]) /\ inv[1].outcome = "RESPOND"
    /\ At(inv[1], "body", 2) # {} /\ At(inv[1], "exit", 3) # {}
    /\ inv[1].ctx.event.data = Null
    /\ inv[1].value = Null

\* a middleware assigned the body after next(), over the handler's value
AssignedAfter ==
    /\ Done(inv[1]) /\ inv[1].outcome = "RESPOND"
    /\ inv[1].ctx.event.data = Str(<<"boom">>)
    /\ \E p, q \in 1..Len(inv[1].log) :
          p < q /\ inv[1].log[p] = <<"exit", 3>> /\ inv[1].log[q] = <<"body", 2>>
    /\ inv[1].value = Str(<<"mw">>)

\* nothing assigned the body
NothingAssigned ==
    /\ Done(inv[1]) /\ inv[1].outcome = "RESPOND"
    /\ inv[1].ctx.event.data = Undefined
    /\ At(inv[1], "exit", Len(inv[1].chain)) # {}
    /\ \A p \in 1..Len(inv[1].log) : inv[1].log[p][1] # "body"
    /\ inv[1].value = Undefined

\* ---- usage errors, read for the properties ----
\* the action of v is malformed (fewer than two segments) or unroutable (a
\* namespace segment is missing, or the method is not callable)
Unroutable(v) ==
    LET paths == SegmentsOf(v)
    IN  \/ Len(paths) < 2
        \/ \E n \in 1..(Len(paths) - 1) : ~Truthy(Lookup(paths, n))
        \/ MethodNotCallable(v)

\* v ran the error-only chain: the transport middleware, then the error
\* handler, whose failure went through the transport middleware to serve
ErrorOnlyRun(v) ==
    /\ Len(v.chain) = 2
    /\ IsTransport(v.chain[1])
    /\ v.chain[2].body.kind = "error"
    /\ v.log = << <<"enter", 1>>, <<"enter", 2>>, <<"raise", 2>>, <<"raise", 1>> >>

\* C17: for a malformed or unroutable action the resolution of the
\* controller returns the error handler without throwing, the transport
\* middleware runs before the error handler, the failure is produced when
\* the error handler runs as the innermost step of the error-only chain, and
\* serve resolves to the normalized failure object.
C17_UsageErrorInChain ==
    \A i \in DOMAIN inv :
        LET v == inv[i]
        IN  (Done(v) /\ Unroutable(v)) =>
            /\ v.promise = "resolved"
            /\ v.outcome = "FAILED"
            /\ ErrorOnlyRun(v)
            /\ v.value.t = "object"
            /\ Attr(v.value, <<"code">>) = FAILED_CODE

\* C17 for the actions whose namespace walk reads no property of a missing
\* node: only the last namespace segment may be missing
UsageErrorInChainWalked ==
    \A i \in DOMAIN inv :
        LET v == inv[i]
            paths == SegmentsOf(v)
        IN  (/\ Done(v)
             /\ Unroutable(v)
             /\ \A n \in 1..(Len(paths) - 2) : Truthy(Lookup(paths, n))) =>
            /\ v.promise = "resolved"
            /\ v.outcome = "FAILED"
            /\ ErrorOnlyRun(v)
            /\ v.value.t = "object"
            /\ Attr(v.value, <<"code">>) = FAILED_CODE

\* ---- short circuits, read for the properties ----
\* chain[k] of v is a middleware whose body ran and makes no call of next()
ShortCircuits(v, k) ==
    /\ IsMiddleware(v.chain[k])
    /\ At(v, "enter", k) # {}
    /\ NextCalls(ProgOf(v.chain[k])) = 0

\* every matching middleware outside chain[k] calls next() once and does
\* not throw
OuterClean(v, k) ==
    \A j \in 1..(k - 1) :
        Matches(v, j) =>
            /\ NextCalls(ProgOf(v.chain[j])) = 1
            /\ \A n \in 1..Len(ProgOf(v.chain[j])) : ProgOf(v.chain[j])[n] # "throw"

CalledAgain(v, k) ==
    /\ IsMiddleware(v.chain[k])
    /\ Matches(v, k)
    /\ NextCalls(ProgOf(v.chain[k])) >= 2
    /\ At(v, "resume", k) # {}

\* C19: the handler, as every entry of the chain, is invoked at most once per
\* invocation: when a middleware calls next() a second time, the inner
\* entries and the handler are not run again, the call fails, and unless a
\* middleware swallows that failure serve resolves to a failure object (its
\* message 'next() called multiple times').
C19_HandlerOnce ==
    \A i \in DOMAIN inv :
        LET v == inv[i]
        IN  /\ \A k \in 1..Len(v.chain) :
                 Cardinality(At(v, "enter", k)) + Cardinality(At(v, "skip", k)) <= 1
            /\ (/\ Done(v)
                /\ \E k \in 1..Len(v.chain) : CalledAgain(v, k)
                /\ ~SomeCaught(v))
               => FailsWith(v, <<"next() called multiple times">>)

\* the second entry called next() twice: the handler ran once, for the first
\* call, and serve resolved to the failure of the second
C19_Witness ==
    /\ Done(inv[1])
    /\ Len(inv[1].chain) = 3
    /\ inv[1].chain[3].body.kind = "controller"
    /\ inv[1].chain[2].body.fn = User("twice", <<"next", "next">>)
    /\ inv[1].log = << <<"enter", 1>>, <<"enter", 2>>, <<"enter", 3>>, <<"exit", 3>>,
                       <<"resume", 2>>, <<"raise", 2>>, <<"raise", 1>> >>
    /\ FailsWith(inv[1], <<"next() called multiple times">>)

\* ---- the chain of an invocation and use(), read for the properties ----
\* the chain of an invocation, once composed, is never changed: no step, and
\* no use() made while the invocation is suspended, adds an entry to it
ChainFixed ==
    \A i \in DOMAIN inv : inv[i].chain # <<>> => inv'[i].chain = inv[i].chain

\* serve starts invocation i in this step, for an action that resolves to a
\* callable method
StartsHandler(i) ==
    /\ inv[i].mode = "idle"
    /\ inv'[i].mode = "call"
    /\ ~Unroutable(inv'[i])

\* the chain of invocation i is, after this step, the middleware sequence
\* followed by the handler
Snapshot(i) ==
    LET chain == inv'[i].chain
    IN  /\ Len(chain) = Len(middleware) + 1
        /\ Inner(SubSeq(chain, 1, Len(middleware))) = Inner(middleware)
        /\ chain[Len(chain)].body.kind = "controller"

\* C20: the chain an invocation executes is fixed when serve starts: it is
\* the middleware sequence at that moment followed by the resolved handler; a
\* use made while the invocation is suspended does not add to it, and a
\* registered middleware is part of every invocation started afterwards.
C20_ChainSnapshot ==
    [][/\ ChainFixed
       /\ \A i \in DOMAIN inv :
            (useRet = "this" /\ StartsHandler(i)) => Snapshot(i)]_vars

\* C20 for the methods that are not named 'error'
ChainSnapshotUnlessError ==
    [][/\ ChainFixed
       /\ \A i \in DOMAIN inv :
            (StartsHandler(i) /\ ~IsErrorHandler(inv'[i].chain[Len(inv'[i].chain)]))
                => Snapshot(i)]_vars

\* a use() was made while an invocation was suspended: its chain is shorter
\* than the middleware sequence
UsedInFlight ==
    \E i \in DOMAIN inv :
        /\ inv[i].mode \in {"call", "run", "return", "throw"}
        /\ inv[i].chain[Len(inv[i].chain)].body.kind = "controller"
        /\ Len(inv[i].chain) <= Len(middleware)

====
